---- MODULE Spec2Model ----
(***************************************************************************)
(* A model of the MLPerf inference harness pieces found in                 *)
(*   cloud/image_classification/python/dataset.py  (Dataset cache and the  *)
(*       PostProcessCommon / PostProcessArgMax accuracy aggregators)       *)
(*   loadgen/demos/py_demo_server.py               (the asynchronous SUT)  *)
(*                                                                         *)
(* Three specifications share the variables:                               *)
(*   SpecStore  the sample cache: load / unload / get_samples              *)
(*   SpecSUT    issue_query, the worker threads and main's shutdown        *)
(*   SpecAgg    concurrent calls of an aggregator's __call__               *)
(***************************************************************************)
EXTENDS Integers, Sequences, FiniteSets

(***************************************************************************)
(* Bounds                                                                  *)
(***************************************************************************)
\* size of the corpus: sample ids are 0 .. NumSamples-1
NumSamples == 2
\* longest sample_list / id_list handed to the Dataset
MaxList == 2
\* number of issue_query calls the load generator makes in one test
MaxBatches == 2
\* most query samples in one issue_query call
MaxQueries == 2
\* number of batch-completion tasks that call the shared aggregator
NumCallers == 2
\* longest output batch / expected-label batch handed to an aggregator call
MaxBatch == 2
\* most latencies handed to process_latencies
MaxLatencies == 3

Ids == 0 .. (NumSamples - 1)

\* all sequences over S of length 0 .. n
SeqsUpTo(S, n) == UNION {[1 .. k -> S] : k \in 0 .. n}

Range(s) == {s[i] : i \in DOMAIN s}

IsInjective(s) == \A i, j \in DOMAIN s : s[i] = s[j] => i = j

\* a sample_list of load/unload names a set of ids in some iteration order
SampleLists == {s \in SeqsUpTo(Ids, MaxList) : IsInjective(s)}

\* an id_list of get_samples may repeat ids
IdLists == SeqsUpTo(Ids, MaxList)

(***************************************************************************)
(* State                                                                   *)
(***************************************************************************)
VARIABLES
    \* ---- Dataset (dataset.py) ----
    image_list_inmemory,  \* dict: sample id -> preprocessed image
    last_loaded,          \* -1 until the first load, then a timestamp (abstracted to 1)
    get_item_calls,       \* ids handed to get_item by the most recent load, in order
    lastOp,               \* most recent load/unload call: [op, arg, raised, follows_load],
                          \* follows_load: the call before it was a load of the same id set
    prevCache,            \* image_list_inmemory as it was before lastOp
    got                   \* outcome of the latest get_samples call since the cache last changed

VARIABLES
    \* ---- demo SUT (py_demo_server.py) ----
    mainPc,               \* where main() is: "StartTest", "DestroyQSL", "DestroySUT", "exit"
    query_batches,        \* the query_samples of every issue_query call so far, in call order
    tpc,                  \* per issued batch: position of its thread in process_query_async
    titer,                \* per issued batch: iterations made by `for s in query_samples`
    responses,            \* per issued batch: the thread's local list `responses`
    completions,          \* the argument of every QuerySamplesComplete call so far, in call order
    raised                \* error conditions main() has raised to its caller

VARIABLES
    \* ---- accuracy aggregator (dataset.py: PostProcessCommon / PostProcessArgMax) ----
    kind,                 \* which class the shared aggregator is: "common" or "argmax"
    offset,               \* self.offset
    good,                 \* self.good
    total,                \* self.total
    call,                 \* per caller: the frame of its __call__: [pc, results, expected,
                          \*   result, n, idx, tmp]; tmp is the attribute value read by the
                          \*   load half of a `+=` and not yet stored back
    mpc,                  \* the thread that calls start() and finalize(): "idle",
                          \*   "start_total" (inside start), "fin_total" (inside finalize)
    results_dict,         \* the dict `results` the finalize call in progress is filling
    quiet,                \* no step of start or of __call__ has run since the finalize
                          \*   call in progress began
    report                \* the dict filled by the latest finished finalize call; not
                          \*   valid once a step of start or of __call__ has run since
                          \*   that call began

VARIABLES
    \* ---- latency report (py_demo_server.py: process_latencies) ----
    latencies_ns,         \* the argument of the process_latencies call
    lpc,                  \* 0 before the call, then the number of the next print
                          \* statement (1..6), then 7 (returned) or 8 (raised)
    printed,              \* what the call has printed so far, in order
    lat_raised            \* the exception the call ended with, or "none"

storeVars == <<image_list_inmemory, last_loaded, get_item_calls, lastOp, prevCache, got>>
sutVars == <<mainPc, query_batches, tpc, titer, responses, completions, raised>>

aggVars == <<kind, offset, good, total, call, mpc, results_dict, quiet, report>>

latVars == <<latencies_ns, lpc, printed, lat_raised>>

vars == <<storeVars, sutVars, aggVars, latVars>>

(***************************************************************************)
(* Dataset                                                                 *)
(***************************************************************************)
EmptyDict == [x \in {} |-> 0]

\* the ground-truth labels of the corpus (Dataset.label_list, filled by the subclass)
label_list == [i \in Ids |-> (i + 1) % NumSamples]

\* get_item(sample) of the concrete dataset: the preprocessed image of a
\* sample and its label; a pure function of the sample id
get_item(sample) == <<100 + sample, label_list[sample]>>

NoOp == [op |-> "none", arg |-> <<>>, raised |-> "none", follows_load |-> FALSE]

\* the call about to be made with sample_list comes right after a load of the same ids
FollowsLoad(sample_list) == lastOp.op = "load" /\ Range(lastOp.arg) = Range(sample_list)
NoCall == [called |-> FALSE, ids |-> <<>>, raised |-> "none", data |-> <<>>, labels |-> <<>>]

\* the for loop of load_query_samples, run on dict d from position i on
RECURSIVE load_loop(_, _, _)
load_loop(d, sample_list, i) ==
    IF i > Len(sample_list) THEN d
    ELSE LET sample == sample_list[i]
             d2 == [k \in (DOMAIN d) \cup {sample} |->
                        IF k = sample THEN get_item(sample)[1] ELSE d[k]]
         IN load_loop(d2, sample_list, i + 1)

\* the get_item calls load_query_samples makes, in order: one per iteration of
\* `for sample in sample_list`, whatever the old dict held
load_calls(old, sample_list) == [i \in DOMAIN sample_list |-> sample_list[i]]

\* a load that forgets to reset the dict
loaded_dict_keep_old(old, sample_list) == load_loop(old, sample_list, 1)

\* a load that materializes only the cache misses but still resets the dict
loaded_dict_missing_only(old, sample_list) ==
    load_loop(EmptyDict, SelectSeq(sample_list, LAMBDA x : x \notin DOMAIN old), 1)

\* the dict load_query_samples leaves in image_list_inmemory: the old dict is
\* dropped (self.image_list_inmemory = {}) before the loop
loaded_dict(old, sample_list) == load_loop(EmptyDict, sample_list, 1)

load_query_samples(sample_list) ==
    /\ image_list_inmemory' = loaded_dict(image_list_inmemory, sample_list)
    /\ get_item_calls' = load_calls(image_list_inmemory, sample_list)
    /\ last_loaded' = 1
    /\ prevCache' = image_list_inmemory
    /\ lastOp' = [op |-> "load", arg |-> sample_list, raised |-> "none",
                  follows_load |-> FollowsLoad(sample_list)]
    /\ got' = NoCall
    /\ UNCHANGED <<sutVars, aggVars, latVars>>

\* the for loop of unload_query_samples from position i on: `del` raises
\* KeyError on the first absent key and leaves the earlier deletions in place
RECURSIVE del_loop(_, _, _)
del_loop(d, sample_list, i) ==
    IF i > Len(sample_list) THEN [dict |-> d, raised |-> "none"]
    ELSE IF sample_list[i] \notin DOMAIN d THEN [dict |-> d, raised |-> "KeyError"]
    ELSE del_loop([k \in (DOMAIN d) \ {sample_list[i]} |-> d[k]], sample_list, i + 1)

\* an unload that skips absent ids silently
unloaded_ignore_missing(d, sample_list) ==
    IF sample_list # <<>>
    THEN [dict |-> [k \in (DOMAIN d) \ Range(sample_list) |-> d[k]], raised |-> "none"]
    ELSE [dict |-> EmptyDict, raised |-> "none"]

\* an unload that leaves the dict alone when given nothing
unloaded_keep_on_empty(d, sample_list) ==
    IF sample_list # <<>> THEN del_loop(d, sample_list, 1)
    ELSE [dict |-> d, raised |-> "none"]

\* an unload whose loop stops one element early
unloaded_skip_last(d, sample_list) ==
    IF sample_list # <<>> THEN del_loop(d, SubSeq(sample_list, 1, Len(sample_list) - 1), 1)
    ELSE [dict |-> EmptyDict, raised |-> "none"]

\* the dict and the exception unload_query_samples ends with; None and an
\* empty list both fail the test `if sample_list:` and are both written <<>>
unloaded(d, sample_list) ==
    IF sample_list # <<>> THEN del_loop(d, sample_list, 1)
    ELSE [dict |-> EmptyDict, raised |-> "none"]

unload_query_samples(sample_list) ==
    LET r == unloaded(image_list_inmemory, sample_list) IN
    /\ image_list_inmemory' = r.dict
    /\ prevCache' = image_list_inmemory
    /\ lastOp' = [op |-> "unload", arg |-> sample_list, raised |-> r.raised,
                  follows_load |-> FollowsLoad(sample_list)]
    /\ got' = NoCall
    /\ UNCHANGED <<last_loaded, get_item_calls>>
    /\ UNCHANGED <<sutVars, aggVars, latVars>>

\* a get_samples that walks id_list backwards
get_samples_reversed(d, id_list) ==
    IF \E i \in DOMAIN id_list : id_list[i] \notin DOMAIN d
    THEN [raised |-> "KeyError", data |-> <<>>, labels |-> <<>>]
    ELSE [raised |-> "none",
          data |-> [i \in DOMAIN id_list |-> d[id_list[Len(id_list) + 1 - i]]],
          labels |-> [i \in DOMAIN id_list |-> label_list[id_list[Len(id_list) + 1 - i]]]]

\* get_samples(id_list): the list comprehension raises KeyError for the whole
\* call on the first absent id; otherwise data and labels follow id_list
get_samples(d, id_list) ==
    IF \E i \in DOMAIN id_list : id_list[i] \notin DOMAIN d
    THEN [raised |-> "KeyError", data |-> <<>>, labels |-> <<>>]
    ELSE [raised |-> "none",
          data |-> [i \in DOMAIN id_list |-> d[id_list[i]]],
          labels |-> [i \in DOMAIN id_list |-> label_list[id_list[i]]]]

GetSamples(id_list) ==
    LET r == get_samples(image_list_inmemory, id_list) IN
    /\ got' = [called |-> TRUE, ids |-> id_list, raised |-> r.raised,
               data |-> r.data, labels |-> r.labels]
    /\ UNCHANGED <<image_list_inmemory, last_loaded, get_item_calls, lastOp, prevCache>>
    /\ UNCHANGED <<sutVars, aggVars, latVars>>

InitDataset ==
    /\ image_list_inmemory = EmptyDict
    /\ last_loaded = -1
    /\ get_item_calls = <<>>
    /\ lastOp = NoOp
    /\ prevCache = EmptyDict
    /\ got = NoCall

(***************************************************************************)
(* Demo SUT: issue_query starts one thread per batch; the thread builds    *)
(* one response per query sample and completes the batch in one call       *)
(***************************************************************************)
\* number of query samples issued so far; response ids are handed out by the
\* load generator and are unique per query sample
IssuedCount == LET RECURSIVE sum(_)
                   sum(k) == IF k = 0 THEN 0 ELSE Len(query_batches[k]) + sum(k - 1)
               IN sum(Len(query_batches))

\* a batch of n fresh query samples; the thread reads only s.id of a sample
NewBatch(n) == [i \in 1 .. n |-> [id |-> IssuedCount + i]]

\* mlperf_loadgen.QuerySampleResponse(id, data, size)
QuerySampleResponse(id, data, size) == [id |-> id, data |-> data, size |-> size]

\* an issue_query that calls the target in the caller's context instead
\* of starting a thread: the batch is processed before issue_query returns
run_inline(query_samples) ==
    LET rs == [i \in DOMAIN query_samples |-> QuerySampleResponse(query_samples[i].id, 0, 0)]
    IN [pc |-> "done", iter |-> Len(query_samples), responses |-> rs, calls |-> <<rs>>]

\* an issue_query that builds the Thread object and never calls start()
thread_not_started(query_samples) ==
    [pc |-> "created", iter |-> 0, responses |-> <<>>, calls |-> <<>>]

\* threading.Thread(target=process_query_async, args=[query_samples]).start():
\* the state of the batch's work when issue_query returns
thread_start(query_samples) ==
    [pc |-> "sleep", iter |-> 0, responses |-> <<>>, calls |-> <<>>]

issue_query(query_samples) ==
    LET t == thread_start(query_samples) IN
    /\ mainPc = "StartTest"
    /\ Len(query_batches) < MaxBatches
    /\ query_batches' = Append(query_batches, query_samples)
    /\ tpc' = Append(tpc, t.pc)
    /\ titer' = Append(titer, t.iter)
    /\ responses' = Append(responses, t.responses)
    /\ completions' = completions \o t.calls
    /\ UNCHANGED <<mainPc, raised>>
    /\ UNCHANGED <<storeVars, aggVars, latVars>>

\* time.sleep(.001); responses = []
thread_sleep(b) ==
    /\ tpc[b] = "sleep"
    /\ tpc' = [tpc EXCEPT ![b] = "loop"]
    /\ responses' = [responses EXCEPT ![b] = <<>>]
    /\ UNCHANGED <<mainPc, query_batches, titer, completions, raised>>
    /\ UNCHANGED <<storeVars, aggVars, latVars>>

\* a loop body that appends the response twice
append_twice(rs, s) ==
    Append(Append(rs, QuerySampleResponse(s.id, 0, 0)), QuerySampleResponse(s.id, 0, 0))

\* a loop body that inserts the response at the front of the list
insert_front(rs, s) == <<QuerySampleResponse(s.id, 0, 0)>> \o rs

\* responses.append(mlperf_loadgen.QuerySampleResponse(s.id, 0, 0))
append_response(rs, s) == Append(rs, QuerySampleResponse(s.id, 0, 0))

\* one iteration of `for s in query_samples`
thread_loop(b) ==
    /\ tpc[b] = "loop"
    /\ titer[b] < Len(query_batches[b])
    /\ responses' = [responses EXCEPT
                        ![b] = append_response(@, query_batches[b][titer[b] + 1])]
    /\ titer' = [titer EXCEPT ![b] = @ + 1]
    /\ UNCHANGED <<mainPc, query_batches, tpc, completions, raised>>
    /\ UNCHANGED <<storeVars, aggVars, latVars>>

\* mlperf_loadgen.QuerySamplesComplete(responses), after the loop
thread_complete(b) ==
    /\ tpc[b] = "loop"
    /\ titer[b] = Len(query_batches[b])
    /\ completions' = Append(completions, responses[b])
    /\ tpc' = [tpc EXCEPT ![b] = "done"]
    /\ UNCHANGED <<mainPc, query_batches, titer, responses, raised>>
    /\ UNCHANGED <<storeVars, aggVars, latVars>>

\* mlperf_loadgen.StartTest(sut, qsl, settings) returns to main; nothing in
\* main or issue_query joins the threads or counts the batches in flight
StartTest_returns ==
    /\ mainPc = "StartTest"
    /\ mainPc' = "DestroyQSL"
    /\ UNCHANGED <<query_batches, tpc, titer, responses, completions, raised>>
    /\ UNCHANGED <<storeVars, aggVars, latVars>>

\* mlperf_loadgen.DestroyQSL(qsl)
DestroyQSL ==
    /\ mainPc = "DestroyQSL"
    /\ mainPc' = "DestroySUT"
    /\ UNCHANGED <<query_batches, tpc, titer, responses, completions, raised>>
    /\ UNCHANGED <<storeVars, aggVars, latVars>>

\* mlperf_loadgen.DestroySUT(sut), then main returns; main raises nothing
DestroySUT ==
    /\ mainPc = "DestroySUT"
    /\ mainPc' = "exit"
    /\ raised' = raised
    /\ UNCHANGED <<query_batches, tpc, titer, responses, completions>>
    /\ UNCHANGED <<storeVars, aggVars, latVars>>

InitSUT ==
    /\ mainPc = "StartTest"
    /\ query_batches = <<>>
    /\ tpc = <<>>
    /\ titer = <<>>
    /\ responses = <<>>
    /\ completions = <<>>
    /\ raised = {}

(***************************************************************************)
(* process_latencies: three captions and three numbers, printed in turn.   *)
(* Numbers are kept exact as fractions num/den.                            *)
(***************************************************************************)
LatencyValues == {10, 20, 30}
LatencyLists == SeqsUpTo(LatencyValues, MaxLatencies)

Text(t) == [kind |-> "text", text |-> t, num |-> 0, den |-> 1]
Number(num, den) == [kind |-> "number", text |-> "", num |-> num, den |-> den]
NaN == [kind |-> "nan", text |-> "", num |-> 0, den |-> 1]
Raise(e) == [kind |-> "raise", text |-> e, num |-> 0, den |-> 1]

RECURSIVE SeqSum(_)
SeqSum(a) == IF a = <<>> THEN 0 ELSE Head(a) + SeqSum(Tail(a))

\* a in ascending order
RECURSIVE SortedSeq(_)
SortedSeq(a) ==
    IF a = <<>> THEN <<>>
    ELSE LET m == CHOOSE i \in DOMAIN a : \A j \in DOMAIN a : a[i] <= a[j]
             rest == [k \in 1 .. (Len(a) - 1) |-> IF k < m THEN a[k] ELSE a[k + 1]]
         IN <<a[m]>> \o SortedSeq(rest)

\* numpy.mean(a): the sum over the count; of no numbers, nan (with a warning,
\* no exception)
mean(a) == IF a = <<>> THEN {NaN} ELSE {Number(SeqSum(a), Len(a))}

\* numpy.percentile(a, q), linear interpolation between the two order
\* statistics around position q/100 * (n-1); of no numbers, nan or IndexError
\* depending on the numpy release
percentile(a, q) ==
    IF a = <<>> THEN {NaN, Raise("IndexError")}
    ELSE LET srt == SortedSeq(a)
             lo == (q * (Len(a) - 1)) \div 100
             rem == (q * (Len(a) - 1)) % 100
             hi == IF rem = 0 THEN lo ELSE lo + 1
         IN {Number(100 * srt[lo + 1] + rem * (srt[hi + 1] - srt[lo + 1]), 100)}

\* the load generator hands the recorded latencies to process_latencies
process_latencies(a) ==
    /\ lpc = 0
    /\ latencies_ns' = a
    /\ lpc' = 1
    /\ UNCHANGED <<printed, lat_raised>>
    /\ UNCHANGED <<storeVars, sutVars, aggVars>>

\* print("Average latency: "), print("Median latency: "), print("90 percentile latency: ")
print_caption ==
    /\ lpc \in {1, 3, 5}
    /\ printed' = Append(printed, Text(CASE lpc = 1 -> "Average latency: "
                                         [] lpc = 3 -> "Median latency: "
                                         [] lpc = 5 -> "90 percentile latency: "))
    /\ lpc' = lpc + 1
    /\ UNCHANGED <<latencies_ns, lat_raised>>
    /\ UNCHANGED <<storeVars, sutVars, aggVars>>

\* print(numpy.mean(latencies_ns)), print(numpy.percentile(latencies_ns, 50)),
\* print(numpy.percentile(latencies_ns, 90)); an exception ends the call
print_number ==
    /\ lpc \in {2, 4, 6}
    /\ \E v \in (CASE lpc = 2 -> mean(latencies_ns)
                   [] lpc = 4 -> percentile(latencies_ns, 50)
                   [] lpc = 6 -> percentile(latencies_ns, 90)) :
          IF v.kind = "raise"
          THEN /\ lat_raised' = v.text
               /\ lpc' = 8
               /\ UNCHANGED printed
          ELSE /\ printed' = Append(printed, v)
               /\ lpc' = lpc + 1
               /\ UNCHANGED lat_raised
    /\ UNCHANGED latencies_ns
    /\ UNCHANGED <<storeVars, sutVars, aggVars>>

InitLatency ==
    /\ latencies_ns = <<>>
    /\ lpc = 0
    /\ printed = <<>>
    /\ lat_raised = "none"

NextLatency ==
    \/ \E a \in LatencyLists : process_latencies(a)
    \/ print_caption
    \/ print_number

(***************************************************************************)
(* Accuracy aggregators.  `self.good += 1` and `self.total += n` are a     *)
(* read of the attribute followed by a write; another thread can run       *)
(* between the two, so each half is a step of its own.                     *)
(***************************************************************************)
Callers == 1 .. NumCallers

\* values a model output / an expected label can take
Preds == {0, 1}
Labels == {1}
Offsets == {0, 1}

\* PostProcessCommon: results[0] is a vector of predicted values
CommonBatches == SeqsUpTo(Preds, MaxBatch)
\* PostProcessArgMax: results[0] is a matrix, one row of class scores per sample
ScoreRows == [1 .. 2 -> {0, 1}]
ArgMaxBatches == SeqsUpTo(ScoreRows, MaxBatch)
ExpectedBatches == SeqsUpTo(Labels, MaxBatch)

\* np.argmax of one row: the (0-based) position of the first maximal score
argmax_row(row) ==
    (CHOOSE i \in DOMAIN row :
        /\ \A j \in DOMAIN row : row[j] <= row[i]
        /\ \A j \in DOMAIN row : j < i => row[j] < row[i]) - 1

\* np.argmax(results[0], axis=1)
argmax(rows) == [i \in DOMAIN rows |-> argmax_row(rows[i])]

NoReport == [valid |-> FALSE, good |-> 0, total |-> 0]

\* what a step of __call__ leaves alone, and the note that it has run
RecordStepFrame ==
    /\ report' = NoReport
    /\ quiet' = FALSE
    /\ UNCHANGED <<mpc, results_dict>>
    /\ UNCHANGED <<storeVars, sutVars, latVars>>

IdleFrame == [pc |-> "idle", results |-> <<>>, expected |-> <<>>, result |-> <<>>,
              n |-> 0, idx |-> 0, tmp |-> 0]

\* entry of __call__(results, ids, expected): n = len(results[0]), resp.
\* result = np.argmax(results[0], axis=1); n = result.shape[0]
record_call(c, results0, expected) ==
    /\ call[c].pc = "idle"
    /\ LET result == IF kind = "argmax" THEN argmax(results0) ELSE results0
       IN call' = [call EXCEPT ![c] = [pc |-> "loop", results |-> results0,
                                       expected |-> expected, result |-> result,
                                       n |-> Len(result), idx |-> 0, tmp |-> 0]]
    /\ UNCHANGED <<kind, offset, good, total>>
    /\ RecordStepFrame

\* the test `result[idx] + self.offset == expected[idx]` of iteration idx;
\* expected[idx] raises IndexError past the end of expected; on a match the
\* thread goes on to read self.good
record_compare(c) ==
    LET f == call[c] IN
    /\ f.pc = "loop"
    /\ f.idx < f.n
    /\ call' = [call EXCEPT ![c] =
                  IF f.idx + 1 > Len(f.expected)
                  THEN [f EXCEPT !.pc = "raised"]
                  ELSE IF f.result[f.idx + 1] + offset = f.expected[f.idx + 1]
                  THEN [f EXCEPT !.pc = "store_good", !.tmp = good]
                  ELSE [f EXCEPT !.idx = f.idx + 1]]
    /\ UNCHANGED <<kind, offset, good, total>>
    /\ RecordStepFrame

\* the write half of self.good += 1
record_store_good(c) ==
    LET f == call[c] IN
    /\ f.pc = "store_good"
    /\ good' = f.tmp + 1
    /\ call' = [call EXCEPT ![c] = [f EXCEPT !.pc = "loop", !.idx = f.idx + 1]]
    /\ UNCHANGED <<kind, offset, total>>
    /\ RecordStepFrame

\* after the loop: the read half of self.total += n
record_load_total(c) ==
    LET f == call[c] IN
    /\ f.pc = "loop"
    /\ f.idx = f.n
    /\ call' = [call EXCEPT ![c] = [f EXCEPT !.pc = "store_total", !.tmp = total]]
    /\ UNCHANGED <<kind, offset, good, total>>
    /\ RecordStepFrame

\* the write half of self.total += n; return results
record_store_total(c) ==
    LET f == call[c] IN
    /\ f.pc = "store_total"
    /\ total' = f.tmp + f.n
    /\ call' = [call EXCEPT ![c] = [f EXCEPT !.pc = "returned"]]
    /\ UNCHANGED <<kind, offset, good>>
    /\ RecordStepFrame

\* start(): self.good = 0
start_good ==
    /\ mpc = "idle"
    /\ good' = 0
    /\ mpc' = "start_total"
    /\ report' = NoReport
    /\ quiet' = FALSE
    /\ UNCHANGED <<kind, offset, total, call, results_dict>>
    /\ UNCHANGED <<storeVars, sutVars, latVars>>

\* start(): self.total = 0
start_total ==
    /\ mpc = "start_total"
    /\ total' = 0
    /\ mpc' = "idle"
    /\ report' = NoReport
    /\ quiet' = FALSE
    /\ UNCHANGED <<kind, offset, good, call, results_dict>>
    /\ UNCHANGED <<storeVars, sutVars, latVars>>

\* finalize(results): results["good"] = self.good, into a fresh dict
finalize_good ==
    /\ mpc = "idle"
    /\ results_dict' = [good |-> good]
    /\ mpc' = "fin_total"
    /\ quiet' = TRUE
    /\ UNCHANGED <<kind, offset, good, total, call, report>>
    /\ UNCHANGED <<storeVars, sutVars, latVars>>

\* a finalize that zeroes the counters once it has reported them
finalize_total_and_reset ==
    /\ mpc = "fin_total"
    /\ report' = [valid |-> quiet, good |-> results_dict.good, total |-> total]
    /\ mpc' = "idle"
    /\ good' = 0
    /\ total' = 0
    /\ UNCHANGED <<kind, offset, call, results_dict, quiet>>
    /\ UNCHANGED <<storeVars, sutVars, latVars>>

\* finalize(results): results["total"] = self.total; the call returns
finalize_total ==
    /\ mpc = "fin_total"
    /\ report' = [valid |-> quiet, good |-> results_dict.good, total |-> total]
    /\ mpc' = "idle"
    /\ UNCHANGED <<kind, offset, good, total, call, results_dict, quiet>>
    /\ UNCHANGED <<storeVars, sutVars, latVars>>

\* __init__(offset): counters at zero
InitAggregator(k, o) ==
    /\ kind = k
    /\ offset = o
    /\ good = 0
    /\ total = 0
    /\ call = [c \in Callers |-> IdleFrame]
    /\ mpc = "idle"
    /\ results_dict = [good |-> 0]
    /\ quiet = FALSE
    /\ report = NoReport

InitAgg ==
    /\ InitDataset
    /\ InitSUT
    /\ InitLatency
    /\ \E k \in {"common", "argmax"}, o \in Offsets : InitAggregator(k, o)

ResultBatches == IF kind = "argmax" THEN ArgMaxBatches ELSE CommonBatches

NextAgg ==
    \/ \E c \in Callers, results0 \in ResultBatches, expected \in ExpectedBatches :
           record_call(c, results0, expected)
    \/ \E c \in Callers : record_compare(c)
    \/ \E c \in Callers : record_store_good(c)
    \/ \E c \in Callers : record_load_total(c)
    \/ \E c \in Callers : record_store_total(c)

SpecAgg == InitAgg /\ [][NextAgg]_vars

\* a measurement window: the calls of __call__ together with a thread that
\* calls start() and finalize()
NextWindow ==
    \/ \E c \in Callers, results0 \in ResultBatches, expected \in ExpectedBatches :
           record_call(c, results0, expected)
    \/ \E c \in Callers : record_compare(c)
    \/ \E c \in Callers : record_store_good(c)
    \/ \E c \in Callers : record_load_total(c)
    \/ \E c \in Callers : record_store_total(c)
    \/ start_good
    \/ start_total
    \/ finalize_good
    \/ finalize_total

\* start and finalize are the same statements in both aggregator classes; the
\* window is explored for a PostProcessCommon, with either offset
InitWindow ==
    /\ InitDataset
    /\ InitSUT
    /\ InitLatency
    /\ \E o \in Offsets : InitAggregator("common", o)

SpecWindow == InitWindow /\ [][NextWindow]_vars

Init == InitDataset /\ InitSUT /\ InitAggregator("common", 0) /\ InitLatency

InitStore == Init

Batches == DOMAIN query_batches

NextSUT ==
    \/ \E n \in 1 .. MaxQueries : issue_query(NewBatch(n))
    \/ \E b \in Batches : thread_sleep(b)
    \/ \E b \in Batches : thread_loop(b)
    \/ \E b \in Batches : thread_complete(b)
    \/ StartTest_returns
    \/ DestroyQSL
    \/ DestroySUT

SpecSUT == Init /\ [][NextSUT]_vars

\* the steps of the thread of batch b
ThreadStep(b) ==
    /\ b \in Batches
    /\ (thread_sleep(b) \/ thread_loop(b) \/ thread_complete(b))

\* a started thread is scheduled again and again until it ends: time.sleep
\* returns, the loop is finite and QuerySamplesComplete returns
SpecSUTFair == SpecSUT /\ \A b \in 1 .. MaxBatches : WF_vars(ThreadStep(b))

SpecLatency == Init /\ [][NextLatency]_vars

NextStore ==
    \/ \E sample_list \in SampleLists : load_query_samples(sample_list)
    \/ \E sample_list \in SampleLists : unload_query_samples(sample_list)
    \/ \E id_list \in IdLists : GetSamples(id_list)

SpecStore == InitStore /\ [][NextStore]_vars

(***************************************************************************)
(* Claims about the sample cache (checked under SpecStore)                 *)
(***************************************************************************)

\* C4: right after load(S) a get_samples call on ids of S succeeds, and right
\* after load(S); unload(S) a get_samples call that names an id of S raises
\* KeyError (the code's SampleNotLoaded), whatever the cache held before.
C4_LoadThenUnload ==
    /\ (lastOp.op = "load" /\ got.called /\ Range(got.ids) \subseteq Range(lastOp.arg))
          => got.raised = "none"
    /\ (lastOp.op = "unload" /\ lastOp.follows_load /\ got.called
            /\ Range(got.ids) \cap Range(lastOp.arg) # {})
          => got.raised = "KeyError"

\* a non-empty S was loaded, then unloaded, and an id of S was asked for
C4_Witness ==
    /\ lastOp.op = "unload" /\ lastOp.follows_load /\ lastOp.arg # <<>>
    /\ got.called /\ Range(got.ids) \cap Range(lastOp.arg) # {}
    /\ got.raised = "KeyError"

\* C5: get_samples on a list of cached ids (any order, repeats allowed) returns
\* data and labels as long as the list, whose i-th entries are the cached image
\* and the corpus label of the i-th id.
C5_OrderPreserved ==
    (got.called /\ Range(got.ids) \subseteq DOMAIN image_list_inmemory) =>
        /\ got.raised = "none"
        /\ Len(got.data) = Len(got.ids)
        /\ Len(got.labels) = Len(got.ids)
        /\ \A i \in DOMAIN got.ids :
              /\ got.data[i] = image_list_inmemory[got.ids[i]]
              /\ got.labels[i] = label_list[got.ids[i]]

\* a successful call whose id list is not in ascending order
C5_Witness ==
    /\ got.called /\ got.raised = "none"
    /\ Len(got.ids) = 2 /\ got.ids[1] > got.ids[2]
    /\ got.data = <<image_list_inmemory[got.ids[1]], image_list_inmemory[got.ids[2]]>>

\* C6: a load(S) made right after a load(S) leaves the cache (keys and the
\* image under each key) as the first load left it.
C6_LoadIdempotent ==
    (lastOp.op = "load" /\ lastOp.follows_load) => image_list_inmemory = prevCache

\* a non-empty S has been loaded twice in a row
C6_Witness ==
    /\ lastOp.op = "load" /\ lastOp.follows_load /\ lastOp.arg # <<>>
    /\ DOMAIN image_list_inmemory = Range(lastOp.arg)

\* C7: when a batch's id list names an id that is not cached, only that query
\* fails: every query of the batch whose id is cached is still resolved to its
\* image and label (so that it can be scored and completed with success).
C7_OnlyMissingQueryFails ==
    got.called =>
        \A i \in DOMAIN got.ids :
            got.ids[i] \in DOMAIN image_list_inmemory =>
                /\ i \in DOMAIN got.data
                /\ got.data[i] = image_list_inmemory[got.ids[i]]
                /\ got.labels[i] = label_list[got.ids[i]]

\* the dict holds images of corpus samples only, each as get_item produced it
WellFormedCache ==
    /\ DOMAIN image_list_inmemory \subseteq Ids
    /\ \A k \in DOMAIN image_list_inmemory : image_list_inmemory[k] = get_item(k)[1]

AnyLoad == \E sample_list \in SampleLists : load_query_samples(sample_list)
AnyUnload == \E sample_list \in SampleLists : unload_query_samples(sample_list)
AnyGetSamples == \E id_list \in IdLists : GetSamples(id_list)

C12_EmptyUnloadClears ==
    (lastOp.op = "unload" /\ lastOp.arg = <<>>) =>
        /\ image_list_inmemory = EmptyDict
        /\ lastOp.raised = "none"
        /\ (got.called /\ got.ids # <<>>) => got.raised = "KeyError"

\* a non-empty dict was cleared by unload(<<>>) and an id it held was asked for
C12_Witness ==
    /\ lastOp.op = "unload" /\ lastOp.arg = <<>>
    /\ prevCache # EmptyDict
    /\ got.called /\ got.ids # <<>> /\ got.ids[1] \in DOMAIN prevCache
    /\ got.raised = "KeyError"

\* how often id x occurs in sequence s
Occurrences(s, x) == Cardinality({i \in DOMAIN s : s[i] = x})

\* C17: load(S) calls get_item for no id of S that was cached before the call
\* (its image is left alone), and exactly once for each id of S that was not.
C17_LoadSkipsCached ==
    lastOp.op = "load" =>
        \A x \in Range(lastOp.arg) :
            Occurrences(get_item_calls, x) = IF x \in DOMAIN prevCache THEN 0 ELSE 1

\* C18: right after load(S) the cached ids are exactly S: an id cached by an
\* earlier load and not in S makes get_samples raise KeyError.
C18_LoadReplaces ==
    lastOp.op = "load" =>
        /\ DOMAIN image_list_inmemory = Range(lastOp.arg)
        /\ (got.called /\ ~(Range(got.ids) \subseteq Range(lastOp.arg)))
              => got.raised = "KeyError"

\* load(B) followed a state that cached an id outside B, and asking for that id failed
C18_Witness ==
    /\ lastOp.op = "load" /\ lastOp.arg # <<>>
    /\ got.called /\ got.raised = "KeyError"
    /\ \E i \in DOMAIN got.ids :
          got.ids[i] \in DOMAIN prevCache /\ got.ids[i] \notin Range(lastOp.arg)

\* C20: an unload that fails on an absent id leaves the dict as it was before
\* the call.
C20_FailedUnloadAtomic ==
    (lastOp.op = "unload" /\ lastOp.raised = "KeyError") => image_list_inmemory = prevCache

(***************************************************************************)
(* Claims about the demo SUT (checked under SpecSUT)                       *)
(***************************************************************************)
\* how many responses handed to QuerySamplesComplete so far carry response id t
TimesReported(t) ==
    LET RECURSIVE count(_)
        count(k) == IF k = 0 THEN 0
                    ELSE Cardinality({i \in DOMAIN completions[k] : completions[k][i].id = t})
                         + count(k - 1)
    IN count(Len(completions))

\* C2: every issued query sample is reported through QuerySamplesComplete
\* exactly once: never twice, and once as soon as its batch's thread is done.
C2_ReportedExactlyOnce ==
    \A b \in Batches : \A i \in DOMAIN query_batches[b] :
        /\ TimesReported(query_batches[b][i].id) <= 1
        /\ tpc[b] = "done" => TimesReported(query_batches[b][i].id) = 1

\* two batches of two queries each have completed, the later-issued one first
C2_Witness ==
    /\ Len(query_batches) = 2 /\ tpc = <<"done", "done">>
    /\ Len(query_batches[1]) = 2 /\ Len(query_batches[2]) = 2
    /\ completions[1][1].id = query_batches[2][1].id
    /\ \A b \in Batches : \A i \in DOMAIN query_batches[b] :
           TimesReported(query_batches[b][i].id) = 1

\* the QuerySamplesComplete calls that carry a response of batch b
CallsOf(b) == {k \in DOMAIN completions :
                  \E i \in DOMAIN completions[k], j \in DOMAIN query_batches[b] :
                      completions[k][i].id = query_batches[b][j].id}

\* call k carries exactly the queries of batch b, in the batch's order
CarriesBatch(k, b) ==
    /\ Len(completions[k]) = Len(query_batches[b])
    /\ \A i \in DOMAIN query_batches[b] : completions[k][i].id = query_batches[b][i].id

\* C3: a batch is completed by one QuerySamplesComplete call carrying the whole
\* batch in issue order; until then no response of the batch has been reported.
C3_BatchCompletesAsUnit ==
    \A b \in Batches :
        IF tpc[b] = "done"
        THEN \E k \in DOMAIN completions : CarriesBatch(k, b) /\ CallsOf(b) = {k}
        ELSE CallsOf(b) = {}

\* a two-query batch has completed while the other batch's thread is mid-loop
C3_Witness ==
    \E b, c \in Batches :
        /\ tpc[b] = "done" /\ Len(query_batches[b]) = 2
        /\ \E k \in DOMAIN completions : CarriesBatch(k, b)
        /\ tpc[c] = "loop" /\ titer[c] = 1 /\ Len(query_batches[c]) = 2

\* the issue_query call that the load generator can make next
IssueNext == \E n \in 1 .. MaxQueries : issue_query(NewBatch(n))

\* C8: issue_query never waits for the batch's work: while the test runs it can
\* be called whatever the state of the batches in flight, and when it returns
\* the new batch's thread has not run (no response built, no completion call).
C8_IssueNeverWaits ==
    /\ []((mainPc = "StartTest" /\ Len(query_batches) < MaxBatches) => ENABLED IssueNext)
    /\ [][Len(query_batches') > Len(query_batches) =>
            /\ tpc'[Len(query_batches')] = "sleep"
            /\ responses'[Len(query_batches')] = <<>>
            /\ completions' = completions
            /\ \A b \in Batches : tpc'[b] = tpc[b]]_vars

\* a second batch has been issued while the first one is still in flight
C8_Witness ==
    /\ Len(query_batches) = 2
    /\ tpc[1] = "loop" /\ tpc[2] = "sleep"
    /\ completions = <<>>

\* C9: once main has destroyed the SUT while an issued batch has not completed,
\* a PrematureShutdown condition has been raised to the caller.
C9_PrematureShutdownRaised ==
    (mainPc = "exit" /\ \E b \in Batches : tpc[b] # "done") => "PrematureShutdown" \in raised

\* number of issued batches whose QuerySamplesComplete call has not been made
InFlight == Cardinality({b \in Batches : tpc[b] # "done"})

\* C15: with threads scheduled fairly, every issued batch is eventually
\* completed, and once StartTest has returned (no more issue_query calls) the
\* number of batches in flight eventually is zero and stays zero.
C15_EventuallyDrained ==
    /\ \A b \in 1 .. MaxBatches : (b \in Batches) ~> (b \in Batches /\ tpc[b] = "done")
    /\ (mainPc # "StartTest") ~> [](InFlight = 0)

\* main has left with every one of the issued batches completed
C15_Witness ==
    /\ mainPc = "exit"
    /\ Len(query_batches) = MaxBatches
    /\ InFlight = 0
    /\ Len(completions) = MaxBatches

(***************************************************************************)
(* Claims about the latency report (checked under SpecLatency)             *)
(***************************************************************************)
\* C14: process_latencies called with no latencies prints no mean and no
\* percentile (a number or nan) and ends by raising NoData.
C14_EmptyRaisesNoData ==
    (lpc # 0 /\ latencies_ns = <<>>) =>
        /\ \A i \in DOMAIN printed : printed[i].kind = "text"
        /\ lpc \in {7, 8} => lat_raised = "NoData"

(***************************************************************************)
(* Claims about the aggregators (checked under SpecAgg)                    *)
(***************************************************************************)
\* number of positions 1..k of caller c's batch whose prediction plus offset
\* equals the expected label
Matches(c, k) ==
    Cardinality({i \in 1 .. k : i <= Len(call[c].expected)
                                /\ call[c].result[i] + offset = call[c].expected[i]})

RECURSIVE SumOver(_, _)
SumOver(f, S) == IF S = {} THEN 0
                 ELSE LET x == CHOOSE y \in S : TRUE IN f[x] + SumOver(f, S \ {x})

\* C1: once every concurrent call on the shared aggregator has returned, total
\* is the number of queries handed in and good is the number of them whose
\* prediction plus offset equals the expected label.
C1_NoLostUpdate ==
    (\A c \in Callers : call[c].pc = "returned" /\ Len(call[c].expected) = call[c].n) =>
        /\ total = SumOver([c \in Callers |-> call[c].n], Callers)
        /\ good = SumOver([c \in Callers |-> Matches(c, call[c].n)], Callers)

\* C10: a call whose expected batch and output batch differ in length ends by
\* raising, and has counted none of its batch by then.
C10_MismatchRaises ==
    \A c \in Callers :
        (call[c].pc \in {"returned", "raised"} /\ Len(call[c].expected) # call[c].n) =>
            /\ call[c].pc = "raised"
            /\ Matches(c, call[c].idx) = 0

(***************************************************************************)
(* Claims about start and finalize (checked under SpecWindow)              *)
(***************************************************************************)
FinalizeStep == (mpc = "idle" /\ mpc' = "fin_total") \/ (mpc = "fin_total" /\ mpc' = "idle")
StartStep == (mpc = "idle" /\ mpc' = "start_total") \/ (mpc = "start_total" /\ mpc' = "idle")

\* C13: finalize can be called whenever the reporting thread is free, whatever
\* the calls of __call__ are in the middle of; no step of it changes good, total
\* or offset; it reports the values the counters have when it reads them; and
\* a finalize that follows another with no step of start or __call__ since
\* that one began reports what that one reported.
C13_FinalizeReadsOnly ==
    /\ [](mpc = "idle" => ENABLED finalize_good)
    /\ [][FinalizeStep => UNCHANGED <<good, total, offset>>]_vars
    /\ [][(mpc = "idle" /\ mpc' = "fin_total") => results_dict'.good = good]_vars
    /\ [][(mpc = "fin_total" /\ mpc' = "idle") =>
            /\ report'.good = results_dict.good
            /\ report'.total = total
            /\ report.valid => report' = report]_vars

\* a finalize has reported non-zero counters while a call of __call__ is
\* halfway through an increment, and nothing has run since
C13_Witness ==
    /\ mpc = "idle"
    /\ report.valid
    /\ report.total > 0
    /\ report.good = good
    /\ report.total = total
    /\ \E c \in Callers : call[c].pc = "store_good"

\* C16: the two steps of start zero good and total and leave offset alone, and
\* no other step lowers good or total.
C16_MonotoneWithinWindow ==
    [][/\ (mpc = "idle" /\ mpc' = "start_total") => (good' = 0 /\ offset' = offset)
       /\ (mpc = "start_total" /\ mpc' = "idle") => (total' = 0 /\ offset' = offset)
       /\ ~StartStep => (good' >= good /\ total' >= total)]_vars

\* C19: good never exceeds total, and neither is negative.
C19_GoodWithinTotal == 0 <= good /\ good <= total

====
